---- MODULE Spec2Model ----
(***************************************************************************)
(* The credential store of password_store.py: a SQLite table of users with *)
(* salted PBKDF2-HMAC password hashes, and the three operations the CLI    *)
(* calls (create_user, verify_user, list_users), run by independent        *)
(* callers whose statements interleave at SQLite's transaction boundaries. *)
(* Then the record codec on its own, and the coin game of                  *)
(* piscina_da_moeda.py.                                                    *)
(*                                                                         *)
(* Spec        two callers of the store, nothing failing around them       *)
(* FaultSpec   one caller, with the module's default iteration count       *)
(*             reassigned, rows edited from outside and statements that    *)
(*             fail                                                        *)
(* CodecSpec   _encode_salt and _decode_salt over short byte strings       *)
(* PiscinaSpec a Piscina and its registrar_busca calls                     *)
(***************************************************************************)
EXTENDS Integers, Sequences, FiniteSets, TLC

(* ------------------------------ bounds -------------------------------- *)

\* Operations started in one behaviour.
MaxOps == 3
\* The clock is read at 0 to MaxClock ticks.
MaxClock == 1

\* Clock ticks in one second: utcnow() is no coarser than the second kept.
TicksPerSecond == 1

\* The concurrent callers (CLI invocations, worker threads).
Procs == {1, 2}

\* Strings are sequences of code points.
\* "a", "B"
Usernames == {<<97>>, <<66>>}
\* The passwords users are created with: "p", "\xe9"
Passwords == {<<112>>, <<233>>}
\* The passwords presented to verify_user: those, and "p\x00"
Candidates == Passwords \cup {<<112, 0>>}

(* ------------------------- program constants -------------------------- *)

PBKDF2_ITERATIONS == 390000
SALT_BYTES == 16

VARIABLES
    tableExists,      \* the users table has been created
    users,            \* the committed rows of the users table
    sqlite_sequence,  \* AUTOINCREMENT's largest rowid handed out
    lock,             \* the caller holding SQLite's write lock, or 0
    journal,          \* the lock holder's uncommitted <<rows, sequence>>
    clock,            \* the system clock when last read, in ticks
    entropy,          \* salts drawn from os.urandom so far
    nOps,             \* operations started, and what else was done to the store
    pc,               \* each caller's position
    op,               \* each caller's operation
    username,         \* its arguments
    password,
    salt,             \* create_user's locals
    password_hash,
    iterations,
    timestamp,
    row,              \* verify_user's fetched row
    returned,         \* verify_user's return value
    listing,          \* list_users' return value
    lastCommit,       \* history: the last committed upsert of each username
    stored,           \* history: every <<salt, password_hash>> a commit has written
    seen,             \* history: the username's last commit when the call read the
                      \* clock (create_user) or the row (verify_user)
    error,            \* the exception a call has raised
    pbkdf2_iterations, \* the module global PBKDF2_ITERATIONS as it stands
    connections,      \* each caller's sqlite3 connections that are open
    raw,              \* the codec on its own: the bytes,
    encoded,          \*     their text,
    decoded,          \*     the text decoded,
    codec_pc,         \*     and how far it has got
    linhas,           \* the Piscina: self.linhas
    colunas,          \*     self.colunas
    _moeda,           \*     self._moeda
    _tentativas_restantes,
    _historico,
    resultado         \*     what the last registrar_busca returned or raised

store == <<tableExists, users, sqlite_sequence, lock, journal, clock, entropy,
           nOps, pc, op, username, password, salt, password_hash, iterations,
           timestamp, row, returned, listing, lastCommit, stored, seen,
           error, pbkdf2_iterations, connections>>
codec == <<raw, encoded, decoded, codec_pc>>
piscina == <<linhas, colunas, _moeda, _tentativas_restantes, _historico, resultado>>

vars == <<store, codec, piscina>>

(* ------------------------------ helpers ------------------------------- *)

NoRow == <<>>
NoCommit == <<>>

RECURSIVE Concat(_)
Concat(ss) == IF ss = <<>> THEN <<>> ELSE Head(ss) \o Concat(Tail(ss))

\* str.encode("utf-8"), for code points below 0x800.
Utf8Char(cp) == IF cp < 128 THEN <<cp>> ELSE <<192 + (cp \div 64), 128 + (cp % 64)>>
Utf8(s) == Concat([i \in 1..Len(s) |-> Utf8Char(s[i])])

\* Byte strings compared as memcmp does, the shorter first on a tie.
RECURSIVE BytesLess(_, _)
BytesLess(a, b) ==
    IF b = <<>> THEN FALSE
    ELSE IF a = <<>> THEN TRUE
    ELSE IF Head(a) # Head(b) THEN Head(a) < Head(b)
    ELSE BytesLess(Tail(a), Tail(b))

Max(a, b) == IF a >= b THEN a ELSE b

(* --------------------------- record codec ----------------------------- *)

\* A text is a sequence of characters: of the base64 alphabet, by their
\* indices 0..63, and the pad "=".
B64Pad == 64

\* base64.b64encode: three bytes to four characters, the tail padded.
RECURSIVE b64encode(_)
b64encode(bs) ==
    IF bs = <<>> THEN <<>>
    ELSE IF Len(bs) = 1 THEN
        LET n == bs[1] * 65536
        IN  <<n \div 262144, (n \div 4096) % 64, B64Pad, B64Pad>>
    ELSE IF Len(bs) = 2 THEN
        LET n == bs[1] * 65536 + bs[2] * 256
        IN  <<n \div 262144, (n \div 4096) % 64, (n \div 64) % 64, B64Pad>>
    ELSE
        LET n == bs[1] * 65536 + bs[2] * 256 + bs[3]
        IN  <<n \div 262144, (n \div 4096) % 64, (n \div 64) % 64, n % 64>>
            \o b64encode(SubSeq(bs, 4, Len(bs)))

\* A character of a text that is ASCII and not of the base64 alphabet ("!"),
\* and one that is not ASCII.
B64Other == 65
NonAscii == 66

\* What b64decode yields where Python raises binascii.Error.
B64Error == <<-1>>

\* binascii.a2b_base64, not strict, as base64.b64decode calls it: characters
\* outside the alphabet are dropped, a pad that completes a group of four ends
\* the input, other pads are dropped, and a group left open at the end is an
\* error.  The state is the place in the group of four (quad_pos), the bits
\* left over from the last character (leftchar) and the pads seen in a row.
RECURSIVE a2b_base64(_, _, _, _)
a2b_base64(cs, quad_pos, leftchar, pads) ==
    IF cs = <<>> THEN (IF quad_pos # 0 THEN B64Error ELSE <<>>)
    ELSE
        LET c == Head(cs)
            rest == Tail(cs)
        IN  IF c = B64Pad THEN
                IF quad_pos >= 2 /\ quad_pos + pads + 1 >= 4 THEN <<>>
                ELSE a2b_base64(rest, quad_pos, leftchar,
                                IF quad_pos >= 2 THEN pads + 1 ELSE pads)
            ELSE IF c > B64Pad THEN a2b_base64(rest, quad_pos, leftchar, pads)
            ELSE IF quad_pos = 0 THEN a2b_base64(rest, 1, c, 0)
            ELSE
                LET byte == CASE quad_pos = 1 -> leftchar * 4 + (c \div 16)
                              [] quad_pos = 2 -> leftchar * 16 + (c \div 4)
                              [] OTHER -> leftchar * 64 + c
                    out == CASE quad_pos = 1 -> a2b_base64(rest, 2, c % 16, 0)
                             [] quad_pos = 2 -> a2b_base64(rest, 3, c % 4, 0)
                             [] OTHER -> a2b_base64(rest, 0, 0, 0)
                IN  IF out = B64Error THEN B64Error ELSE <<byte>> \o out

b64decode(cs) == a2b_base64(cs, 0, 0, 0)

\* What str.encode("ascii") yields where Python raises UnicodeEncodeError.
UnicodeError == <<-2>>

_encode_salt(s) == b64encode(s)

\* A bug: the stored text is taken for the salt, undecoded.
DecodeSaltUndecoded(encoded_salt) == encoded_salt

_decode_salt(encoded_salt) ==
    IF \E i \in 1..Len(encoded_salt) : encoded_salt[i] = NonAscii
    THEN UnicodeError
    ELSE b64decode(encoded_salt)

(* ---------------------------- hash engine ----------------------------- *)

\* os.urandom(k), the n-th draw.  Draws are taken never to repeat: the n-th
\* differs from every earlier one in its first byte.
urandom(k, n) == [i \in 1..k |-> (n * i) % 256]

\* A bug: one salt, drawn once, serves every call.
GenerateSaltOnce(n) == urandom(SALT_BYTES, 1)

_generate_salt(n) == urandom(SALT_BYTES, n)

\* HMAC pads its key with zero bytes to the block size, so keys that differ
\* only in trailing zero bytes are one key.  The key is kept in the canonical
\* form with the trailing zeros stripped (keys here are shorter than a block).
RECURSIVE HmacKey(_)
HmacKey(key) ==
    IF key # <<>> /\ key[Len(key)] = 0
    THEN HmacKey(SubSeq(key, 1, Len(key) - 1))
    ELSE key

\* What pbkdf2_hmac yields where Python raises ValueError.
Pbkdf2Error == <<-3>>

\* A bug: a key derivation that takes any iteration count.
Pbkdf2AnyCount(key, s, n) == <<HmacKey(key), s, n>>

\* hashlib.pbkdf2_hmac("sha256", ...): an ideal hash, one digest for each
\* (HMAC key, salt, iteration count) and different digests for different ones.
\* An iteration count below 1 is refused: "iteration value must be greater
\* than 0."
pbkdf2_hmac(key, s, n) == IF n < 1 THEN Pbkdf2Error ELSE <<HmacKey(key), s, n>>

\* The digest in base64; the digest being symbolic, so is its text.  Where
\* pbkdf2_hmac raises, so does _hash_password.
_hash_password(pw, s, n) == [b64 |-> pbkdf2_hmac(Utf8(pw), s, n)]

NoHash == [b64 |-> <<>>]
HashError == [b64 |-> Pbkdf2Error]

\* What a call returns or raises, by name.
NoError == "none"
Returns(b) == IF b THEN "True" ELSE "False"

\* hashlib.compare_digest(a, b).  hashlib has no attribute compare_digest
\* (hmac and secrets have): evaluating the name raises AttributeError, and
\* nothing is compared.
compare_digest(a, b) == "AttributeError"

\* datetime.utcnow().isoformat(timespec="seconds") + "Z": the clock cut to
\* whole seconds.
isoformat(t) == t \div TicksPerSecond

(* ------------------------ credential repository ----------------------- *)

\* A bug: the table is never created.
CreateTableSkipped(exists) == exists

\* CREATE TABLE IF NOT EXISTS users: whether the table exists afterwards.
CreateTableIfNotExists(exists) == TRUE

\* The rowid AUTOINCREMENT hands to a statement: one more than the largest
\* ever handed out and than every rowid in the table.
RECURSIVE MaxId(_)
MaxId(rows) ==
    IF rows = {} THEN 0
    ELSE LET r == CHOOSE x \in rows : TRUE
         IN  Max(r.id, MaxId(rows \ {r}))

\* A bug: the sequence is read and never advanced.
NewRowidNotAdvanced(rows, seq) == seq

NewRowid(rows, seq) == Max(seq, MaxId(rows)) + 1

\* A bug: a plain INSERT into a table without the UNIQUE constraint.
UpsertAlwaysInserts(rows, seq, u, h, s, n, ts) ==
    rows \cup {[id |-> NewRowid(rows, seq), username |-> u,
                password_hash |-> h, salt |-> s, iterations |-> n,
                created_at |-> ts, updated_at |-> ts]}

\* A bug: INSERT OR REPLACE, which deletes the row in conflict and inserts a
\* new one.
UpsertReplacesRow(rows, seq, u, h, s, n, ts) ==
    {r \in rows : r.username # u}
        \cup {[id |-> NewRowid(rows, seq), username |-> u,
                password_hash |-> h, salt |-> s, iterations |-> n,
                created_at |-> ts, updated_at |-> ts]}

\* A bug: DO UPDATE SET without updated_at.
UpsertKeepsUpdatedAt(rows, seq, u, h, s, n, ts) ==
    IF \E r \in rows : r.username = u
    THEN { IF r.username = u
           THEN [r EXCEPT !.password_hash = h, !.salt = s, !.iterations = n]
           ELSE r : r \in rows }
    ELSE rows \cup {[id |-> NewRowid(rows, seq), username |-> u,
                     password_hash |-> h, salt |-> s, iterations |-> n,
                     created_at |-> ts, updated_at |-> ts]}

\* A bug: DO UPDATE SET without salt.
UpsertKeepsSalt(rows, seq, u, h, s, n, ts) ==
    IF \E r \in rows : r.username = u
    THEN { IF r.username = u
           THEN [r EXCEPT !.password_hash = h, !.iterations = n, !.updated_at = ts]
           ELSE r : r \in rows }
    ELSE rows \cup {[id |-> NewRowid(rows, seq), username |-> u,
                     password_hash |-> h, salt |-> s, iterations |-> n,
                     created_at |-> ts, updated_at |-> ts]}

\* A bug: on a conflict an UPDATE with no WHERE, which writes every row.
UpsertUpdatesEveryRow(rows, seq, u, h, s, n, ts) ==
    IF \E r \in rows : r.username = u
    THEN { [r EXCEPT !.password_hash = h, !.salt = s,
                     !.iterations = n, !.updated_at = ts] : r \in rows }
    ELSE rows \cup {[id |-> NewRowid(rows, seq), username |-> u,
                     password_hash |-> h, salt |-> s, iterations |-> n,
                     created_at |-> ts, updated_at |-> ts]}

\* INSERT INTO users (...) VALUES (...) ON CONFLICT(username) DO UPDATE SET
\* password_hash, salt, iterations, updated_at: the rows afterwards.
UpsertRows(rows, seq, u, h, s, n, ts) ==
    IF \E r \in rows : r.username = u
    THEN { IF r.username = u
           THEN [r EXCEPT !.password_hash = h, !.salt = s,
                          !.iterations = n, !.updated_at = ts]
           ELSE r : r \in rows }
    ELSE rows \cup {[id |-> NewRowid(rows, seq), username |-> u,
                     password_hash |-> h, salt |-> s, iterations |-> n,
                     created_at |-> ts, updated_at |-> ts]}

\* sqlite_sequence after the statement: the rowid it drew is used up, also
\* when the conflict turned the insert into an update.
UpsertSequence(rows, seq) == NewRowid(rows, seq)

\* The rows, at most one, with the username u.
RowsNamed(rows, u) == {r \in rows : r.username = u}

\* A connection may start writing when no other holds the write lock.
CanWrite(holder) == holder = 0

\* SELECT password_hash, salt, iterations FROM users WHERE username = ?,
\* fetchone().
SelectCredentials(rows, u) ==
    IF \E r \in rows : r.username = u
    THEN LET r == CHOOSE x \in rows : x.username = u
         IN  <<r.password_hash, r.salt, r.iterations>>
    ELSE NoRow

\* SELECT id, username, created_at, updated_at FROM users ORDER BY username,
\* fetchall().
ListColumns(r) == <<r.id, r.username, r.created_at, r.updated_at>>

RECURSIVE OrderByUsername(_)
OrderByUsername(rows) ==
    IF rows = {} THEN <<>>
    ELSE LET first == CHOOSE r \in rows :
                          \A q \in rows : ~BytesLess(Utf8(q.username), Utf8(r.username))
         IN  <<first>> \o OrderByUsername(rows \ {first})

\* A bug: no ORDER BY, the rows come in rowid order.
RECURSIVE OrderById(_)
OrderById(rows) ==
    IF rows = {} THEN <<>>
    ELSE LET first == CHOOSE r \in rows : \A q \in rows : r.id <= q.id
         IN  <<first>> \o OrderById(rows \ {first})

SelectListUnordered(rows) ==
    LET ordered == OrderById(rows)
    IN  [i \in 1..Len(ordered) |-> ListColumns(ordered[i])]

SelectList(rows) ==
    LET ordered == OrderByUsername(rows)
    IN  [i \in 1..Len(ordered) |-> ListColumns(ordered[i])]

(* ------------------------ verification service ------------------------ *)

\* verify_user after the row is fetched: what it returns or raises.
VerifyRow(r, pw) ==
    IF r = NoRow THEN Returns(FALSE)
    ELSE
        LET decoded_salt == _decode_salt(r[2])
            computed_hash == _hash_password(pw, decoded_salt, r[3])
        IN  IF decoded_salt = UnicodeError THEN "UnicodeEncodeError"
            ELSE IF decoded_salt = B64Error THEN "binascii.Error"
            ELSE IF computed_hash = HashError THEN "ValueError"
            ELSE compare_digest(r[1], computed_hash)

(* ------------------------------- state -------------------------------- *)

Ops == {"create", "verify", "list"}

\* Every username a call can be made with: those, and the empty string.
Names == Usernames \cup {<<>>}

\* sqlite3.connect: one more connection is open.
connect(n) == n + 1

\* A bug: the connection closed after the block, with no try and finally.
CloseUnlessRaising(n, raising) == IF raising THEN n ELSE n - 1

\* _connect's finally clause, connection.close(): it runs when the block is
\* left, whether by its end, by a return or by an exception on its way out.
finally_close(n, raising) == n - 1

StoreInit ==
    /\ tableExists = FALSE
    /\ users = {}
    /\ sqlite_sequence = 0
    /\ lock = 0
    /\ journal = <<>>
    /\ clock = 0
    /\ entropy = 0
    /\ nOps = 0
    /\ pc = [p \in Procs |-> "idle"]
    /\ op = [p \in Procs |-> "none"]
    /\ username = [p \in Procs |-> <<>>]
    /\ password = [p \in Procs |-> <<>>]
    /\ salt = [p \in Procs |-> <<>>]
    /\ password_hash = [p \in Procs |-> NoHash]
    /\ iterations = [p \in Procs |-> 0]
    /\ timestamp = [p \in Procs |-> 0]
    /\ row = [p \in Procs |-> NoRow]
    /\ returned = [p \in Procs |-> FALSE]
    /\ listing = [p \in Procs |-> <<>>]
    /\ lastCommit = [u \in Names |-> NoCommit]
    /\ stored = {}
    /\ seen = [p \in Procs |-> NoCommit]
    /\ error = [p \in Procs |-> NoError]
    /\ pbkdf2_iterations = PBKDF2_ITERATIONS
    /\ connections = [p \in Procs |-> 0]

\* The codec and the game at rest, where the store is what runs.
CodecOff ==
    /\ raw = <<>>
    /\ encoded = <<>>
    /\ decoded = <<>>
    /\ codec_pc = "off"

NoPiscina ==
    /\ linhas = 0
    /\ colunas = 0
    /\ _moeda = <<0, 0>>
    /\ _tentativas_restantes = 0
    /\ _historico = <<>>
    /\ resultado = <<"none">>

Init == StoreInit /\ CodecOff /\ NoPiscina

database == <<tableExists, users, sqlite_sequence, lock, journal>>
locals == <<salt, password_hash, iterations, timestamp, row, returned, listing>>
arguments == <<op, username, password>>
history == <<lastCommit, stored>>
others == <<pbkdf2_iterations, codec, piscina>>

\* An idle caller calls one of the three operations with a username of
\* names; each begins with initialize_database, which opens a connection of
\* its own, creates the table if there is none, commits and closes.
Enter(p, names) ==
    /\ pc[p] = "idle"
    /\ nOps < MaxOps
    /\ \E o \in Ops :
       \E u \in (IF o = "list" THEN {<<>>} ELSE names) :
       \E pw \in (CASE o = "create" -> Passwords
                     [] o = "verify" -> Candidates
                     [] OTHER -> {<<>>}) :
          /\ op' = [op EXCEPT ![p] = o]
          /\ username' = [username EXCEPT ![p] = u]
          /\ password' = [password EXCEPT ![p] = pw]
          /\ pc' = [pc EXCEPT ![p] = CASE o = "create" -> "prepare"
                                       [] o = "verify" -> "select"
                                       [] OTHER -> "select_all"]
    /\ nOps' = nOps + 1
    /\ tableExists' = CreateTableIfNotExists(tableExists)
    /\ connections' = [connections EXCEPT ![p] = finally_close(connect(@), FALSE)]
    /\ UNCHANGED <<users, sqlite_sequence, lock, journal, clock, entropy,
                   locals, history, seen, error, others>>

InitializeDatabase(p) == Enter(p, Usernames)

\* create_user: the salt, the iteration count as the module global stands,
\* the digest, which pbkdf2_hmac refuses to derive with a count below 1, and
\* then the timestamp.  utcnow() reads a clock that does not run backwards:
\* the time read is not before the last time read.
Prepare(p) ==
    /\ pc[p] = "prepare"
    /\ entropy' = entropy + 1
    /\ salt' = [salt EXCEPT ![p] = _generate_salt(entropy')]
    /\ iterations' = [iterations EXCEPT ![p] = pbkdf2_iterations]
    /\ LET hashed == _hash_password(password[p], salt'[p], iterations'[p])
       IN  IF hashed = HashError
           THEN /\ error' = [error EXCEPT ![p] = "ValueError"]
                /\ pc' = [pc EXCEPT ![p] = "raised"]
                /\ UNCHANGED <<clock, password_hash, timestamp, seen>>
           ELSE /\ password_hash' = [password_hash EXCEPT ![p] = hashed]
                /\ \E now \in clock..MaxClock : clock' = now
                /\ timestamp' = [timestamp EXCEPT ![p] = isoformat(clock')]
                /\ seen' = [seen EXCEPT ![p] = lastCommit[username[p]]]
                /\ pc' = [pc EXCEPT ![p] = "execute"]
                /\ UNCHANGED error
    /\ UNCHANGED <<database, nOps, arguments, row, returned, listing, history,
                   connections, others>>

\* create_user: a connection is opened and the upsert statement run, in a
\* transaction of its own that holds the write lock until it commits.
\* Without the table the statement raises and the connection is closed.
Execute(p) ==
    /\ pc[p] = "execute"
    /\ IF ~tableExists
       THEN /\ pc' = [pc EXCEPT ![p] = "raised"]
            /\ error' = [error EXCEPT ![p] = "sqlite3.OperationalError"]
            /\ connections' = [connections EXCEPT ![p] =
                                   finally_close(connect(@), TRUE)]
            /\ UNCHANGED <<lock, journal>>
       ELSE /\ CanWrite(lock)
            /\ lock' = p
            /\ journal' = <<UpsertRows(users, sqlite_sequence, username[p],
                                       password_hash[p], _encode_salt(salt[p]),
                                       iterations[p], timestamp[p]),
                            UpsertSequence(users, sqlite_sequence)>>
            /\ connections' = [connections EXCEPT ![p] = connect(@)]
            /\ pc' = [pc EXCEPT ![p] = "commit"]
            /\ UNCHANGED error
    /\ UNCHANGED <<tableExists, users, sqlite_sequence, clock, entropy, nOps,
                   arguments, locals, history, seen, others>>

\* create_user: connection.commit() publishes the transaction, and the block
\* ends: the connection is closed.
Commit(p) ==
    /\ pc[p] = "commit"
    /\ lock = p
    /\ users' = journal[1]
    /\ sqlite_sequence' = journal[2]
    /\ lock' = 0
    /\ journal' = <<>>
    /\ lastCommit' = [lastCommit EXCEPT ![username[p]] =
                          <<[password |-> password[p], salt |-> salt[p],
                             salt_text |-> _encode_salt(salt[p]),
                             password_hash |-> password_hash[p],
                             iterations |-> iterations[p],
                             timestamp |-> timestamp[p]]>>]
    /\ stored' = stored \cup {<<r.salt, r.password_hash>> :
                                r \in {x \in users' : x.username = username[p]}}
    /\ connections' = [connections EXCEPT ![p] = finally_close(@, FALSE)]
    /\ pc' = [pc EXCEPT ![p] = "done"]
    /\ UNCHANGED <<tableExists, clock, entropy, nOps, arguments, locals, seen,
                   error, others>>

\* verify_user: the SELECT of the user's row on a connection that is closed
\* when the row is fetched, then the digest recomputed from the row and
\* compared.  Without the table the SELECT raises.
Select(p) ==
    /\ pc[p] = "select"
    /\ IF ~tableExists
       THEN /\ pc' = [pc EXCEPT ![p] = "raised"]
            /\ error' = [error EXCEPT ![p] = "sqlite3.OperationalError"]
            /\ connections' = [connections EXCEPT ![p] =
                                   finally_close(connect(@), TRUE)]
            /\ UNCHANGED <<row, returned, seen>>
       ELSE /\ row' = [row EXCEPT ![p] = SelectCredentials(users, username[p])]
            /\ connections' = [connections EXCEPT ![p] =
                                   finally_close(connect(@), FALSE)]
            /\ seen' = [seen EXCEPT ![p] = lastCommit[username[p]]]
            /\ LET outcome == VerifyRow(row'[p], password[p])
               IN  IF outcome \in {Returns(TRUE), Returns(FALSE)}
                   THEN /\ returned' = [returned EXCEPT ![p] = outcome = Returns(TRUE)]
                        /\ pc' = [pc EXCEPT ![p] = "done"]
                        /\ UNCHANGED error
                   ELSE /\ error' = [error EXCEPT ![p] = outcome]
                        /\ pc' = [pc EXCEPT ![p] = "raised"]
                        /\ UNCHANGED returned
    /\ UNCHANGED <<database, clock, entropy, nOps, arguments, salt, password_hash,
                   iterations, timestamp, listing, history, others>>

\* list_users: the SELECT of every row, on a connection closed on return.
ListUsers(p) ==
    /\ pc[p] = "select_all"
    /\ IF ~tableExists
       THEN /\ pc' = [pc EXCEPT ![p] = "raised"]
            /\ error' = [error EXCEPT ![p] = "sqlite3.OperationalError"]
            /\ connections' = [connections EXCEPT ![p] =
                                   finally_close(connect(@), TRUE)]
            /\ UNCHANGED listing
       ELSE /\ listing' = [listing EXCEPT ![p] = SelectList(users)]
            /\ connections' = [connections EXCEPT ![p] =
                                   finally_close(connect(@), FALSE)]
            /\ pc' = [pc EXCEPT ![p] = "done"]
            /\ UNCHANGED error
    /\ UNCHANGED <<database, clock, entropy, nOps, arguments, salt, password_hash,
                   iterations, timestamp, row, returned, history, seen, others>>

\* The operation has returned or raised: its frame is gone and the caller is
\* free for the next.
Return(p) ==
    /\ pc[p] \in {"done", "raised"}
    /\ pc' = [pc EXCEPT ![p] = "idle"]
    /\ op' = [op EXCEPT ![p] = "none"]
    /\ username' = [username EXCEPT ![p] = <<>>]
    /\ password' = [password EXCEPT ![p] = <<>>]
    /\ salt' = [salt EXCEPT ![p] = <<>>]
    /\ password_hash' = [password_hash EXCEPT ![p] = NoHash]
    /\ iterations' = [iterations EXCEPT ![p] = 0]
    /\ timestamp' = [timestamp EXCEPT ![p] = 0]
    /\ row' = [row EXCEPT ![p] = NoRow]
    /\ returned' = [returned EXCEPT ![p] = FALSE]
    /\ listing' = [listing EXCEPT ![p] = <<>>]
    /\ seen' = [seen EXCEPT ![p] = NoCommit]
    /\ error' = [error EXCEPT ![p] = NoError]
    /\ UNCHANGED <<database, clock, entropy, nOps, history, connections, others>>

Next ==
    \E p \in Procs :
          \/ InitializeDatabase(p)
          \/ Prepare(p)
          \/ Execute(p)
          \/ Commit(p)
          \/ Select(p)
          \/ ListUsers(p)
          \/ Return(p)

Spec == Init /\ [][Next]_vars

(* ------------------- the store with faults around it ------------------ *)

\* The one caller of FaultSpec.
Caller == 1

\* The values the module global PBKDF2_ITERATIONS is given: the default,
\* another count, zero and a negative one.
IterationCounts == {PBKDF2_ITERATIONS, 1, 0, -1}

\* Texts that are no encoding of a salt: "!!!", "A" and a character that is
\* not ASCII.  And a hash text that no digest encodes to: "!".
CorruptSalts == {<<B64Other, B64Other, B64Other>>, <<0>>, <<NonAscii>>}
CorruptHash == [b64 |-> <<B64Other>>]

\* PBKDF2_ITERATIONS is assigned another value between two calls (a later
\* version of the module, or its user).
Reconfigure ==
    /\ \A p \in Procs : pc[p] = "idle"
    /\ nOps < MaxOps
    /\ nOps' = nOps + 1
    /\ \E n \in IterationCounts \ {pbkdf2_iterations} : pbkdf2_iterations' = n
    /\ UNCHANGED <<database, clock, entropy, pc, arguments, locals,
                   history, seen, error, connections, codec, piscina>>

\* Between two calls the salt or the hash of u's row is overwritten in the
\* database file by something that is not this module; the columns are TEXT
\* and take any text.
Corrupt(u) ==
    /\ \A p \in Procs : pc[p] = "idle"
    /\ nOps < MaxOps
    /\ nOps' = nOps + 1
    /\ \E r \in RowsNamed(users, u) :
          \/ \E text \in CorruptSalts \ {r.salt} :
                users' = (users \ {r}) \cup {[r EXCEPT !.salt = text]}
          \/ /\ r.password_hash # CorruptHash
             /\ users' = (users \ {r}) \cup {[r EXCEPT !.password_hash = CorruptHash]}
    /\ UNCHANGED <<tableExists, sqlite_sequence, lock, journal, clock, entropy,
                   pc, arguments, locals, history, seen, error,
                   connections, others>>

\* The statement the caller has come to (the upsert, the commit or a SELECT)
\* raises sqlite3.Error: the disk fails, or the database stays locked.  The
\* exception leaves the with block through _connect's finally clause; closing
\* the connection rolls back what it had not committed.
StatementFails(p) ==
    /\ pc[p] \in {"execute", "commit", "select", "select_all"}
    /\ connections' = [connections EXCEPT ![p] =
                           finally_close(IF pc[p] = "commit" THEN @ ELSE connect(@),
                                         TRUE)]
    /\ lock' = IF lock = p THEN 0 ELSE lock
    /\ journal' = IF lock = p THEN <<>> ELSE journal
    /\ error' = [error EXCEPT ![p] = "sqlite3.Error"]
    /\ pc' = [pc EXCEPT ![p] = "raised"]
    /\ UNCHANGED <<tableExists, users, sqlite_sequence, clock, entropy, nOps,
                   arguments, locals, history, seen, others>>

FaultNext ==
    \/ Enter(Caller, Names)
    \/ Prepare(Caller)
    \/ Execute(Caller)
    \/ Commit(Caller)
    \/ Select(Caller)
    \/ ListUsers(Caller)
    \/ Return(Caller)
    \/ StatementFails(Caller)
    \/ Reconfigure
    \/ \E u \in Names : Corrupt(u)

FaultSpec == Init /\ [][FaultNext]_vars

(* ------------------------ the codec on its own ------------------------ *)

\* The byte strings encoded: every string of up to MaxLen bytes of these
\* values, and the salts _generate_salt draws.
MaxLen == 3
ByteValues == {0, 1, 128, 255}
BytesUpTo(n) == UNION {[1..k -> ByteValues] : k \in 0..n}

CodecInit ==
    /\ StoreInit
    /\ NoPiscina
    /\ raw \in BytesUpTo(MaxLen) \cup {_generate_salt(n) : n \in 1..MaxOps}
    /\ encoded = <<>>
    /\ decoded = <<>>
    /\ codec_pc = "raw"

EncodeSalt ==
    /\ codec_pc = "raw"
    /\ encoded' = _encode_salt(raw)
    /\ codec_pc' = "encoded"
    /\ UNCHANGED <<raw, decoded, store, piscina>>

DecodeSalt ==
    /\ codec_pc = "encoded"
    /\ decoded' = _decode_salt(encoded)
    /\ codec_pc' = "decoded"
    /\ UNCHANGED <<raw, encoded, store, piscina>>

CodecNext == EncodeSalt \/ DecodeSalt

CodecSpec == CodecInit /\ [][CodecNext]_vars

(* ------------------------- the coin in the pool ----------------------- *)

\* A Piscina is made with 0 to MaxLinhas lines and 0 to MaxColunas columns.
MaxLinhas == 3
MaxColunas == 6

\* A Posicao is <<linha, coluna>>.  The positions searched: two, of which
\* the second lies outside a pool of one line or one column (registrar_busca
\* takes any Posicao).
Tentativas == {<<0, 0>>, <<1, 1>>}

\* Posicao.distancia is math.hypot of the two differences; kept here is its
\* square, which is 0 where the distance is.
distancia(a, b) == (a[1] - b[1]) * (a[1] - b[1]) + (a[2] - b[2]) * (a[2] - b[2])

\* What the last call returned or raised.
NoResult == <<"none">>
Raised(e) == <<e>>
Found(d) == <<"returned", d = 0, d>>

\* A bug: the searches run out one search late.
EsgotadasAbaixoDeZero(n) == n < 0

\* registrar_busca's test that no searches are left.
Esgotadas(n) == n <= 0

PiscinaInit ==
    /\ StoreInit
    /\ CodecOff
    /\ NoPiscina /\ resultado = NoResult

\* Piscina(l, c): __init__ refuses dimensions that are not positive, drops
\* the coin on a position of the pool and sets the searches allowed.
NovaPiscina(l, c) ==
    /\ linhas = 0
    /\ resultado = NoResult
    /\ IF l <= 0 \/ c <= 0
       THEN /\ resultado' = Raised("ValueError")
            /\ UNCHANGED <<linhas, colunas, _moeda, _tentativas_restantes, _historico>>
       ELSE /\ linhas' = l
            /\ colunas' = c
            /\ \E m \in (0..(l - 1)) \X (0..(c - 1)) : _moeda' = m
            /\ _tentativas_restantes' = Max(5, (l * c) \div 3)
            /\ _historico' = <<>>
            /\ UNCHANGED resultado
    /\ UNCHANGED <<store, codec>>

\* piscina.registrar_busca(tentativa).
RegistrarBusca(tentativa) ==
    /\ linhas > 0
    /\ IF Esgotadas(_tentativas_restantes)
       THEN /\ resultado' = Raised("RuntimeError")
            /\ UNCHANGED <<_tentativas_restantes, _historico>>
       ELSE /\ _tentativas_restantes' = _tentativas_restantes - 1
            /\ _historico' = Append(_historico,
                                    <<tentativa, distancia(tentativa, _moeda)>>)
            /\ resultado' = Found(distancia(tentativa, _moeda))
    /\ UNCHANGED <<linhas, colunas, _moeda, store, codec>>

PiscinaNext ==
    \/ \E l \in 0..MaxLinhas, c \in 0..MaxColunas : NovaPiscina(l, c)
    \/ \E tentativa \in Tentativas : RegistrarBusca(tentativa)

PiscinaSpec == PiscinaInit /\ [][PiscinaNext]_vars

(* ------------------------------ claims -------------------------------- *)

\* p's verify_user has fetched its row and come to its end, by a return or by
\* an exception; p's create_user has committed and returned.
Verified(p) == op[p] = "verify" /\ pc[p] \in {"done", "raised"}
Created(p) == op[p] = "create" /\ pc[p] = "done"

\* p's commit step.
Commits(p) == pc[p] = "commit" /\ pc'[p] = "done"

\* The columns a create_user call wrote, from the call's own values.
Written(c) == <<c.password_hash, c.salt_text, c.iterations>>
Credentials(r) == <<r.password_hash, r.salt, r.iterations>>
RowsOf(rows, u) == RowsNamed(rows, u)

\* C1: verify_user(u, p) returns True whenever the last committed
\* create_user for u, as of the moment verify_user reads the row, used
\* password p, whatever other operations ran in between.
C1_UpsertThenVerify ==
    \A p \in Procs :
        (Verified(p) /\ seen[p] # NoCommit /\ seen[p][1].password = password[p])
            => (pc[p] = "done" /\ returned[p] = TRUE)

\* C2: verify_user(u, w) returns False for every w that is not the password
\* of the last committed create_user for u.
C2_WrongPasswordRejected ==
    \A p \in Procs :
        (Verified(p) /\ seen[p] # NoCommit /\ seen[p][1].password # password[p])
            => (pc[p] = "done" /\ returned[p] = FALSE)

\* C3: verify_user on a username that was never upserted does not raise,
\* also on a database without the table, and returns the boolean False; and
\* so does verify_user with a wrong password for a username that is stored,
\* which leaves a caller nothing to tell the two by.
C3_UnknownUserIsFalse ==
    \A p \in Procs :
        (Verified(p) /\ (seen[p] = NoCommit \/ seen[p][1].password # password[p]))
            => (pc[p] = "done" /\ error[p] = NoError /\ returned[p] = FALSE)

\* C4: the table holds exactly one row for every username ever upserted, and
\* never two rows with one username.
C4_OneRecordPerUsername ==
    /\ \A r1, r2 \in users : r1.username = r2.username => r1 = r2
    /\ {r.username : r \in users} = {u \in Usernames : lastCommit[u] # NoCommit}

\* C4's case: two callers have upserted the same username.
C4_Witness ==
    \E p, q \in Procs :
        /\ p # q /\ Created(p) /\ Created(q) /\ username[p] = username[q]
        /\ Cardinality(users) = 1

\* C5: every step keeps the id, the username and created_at of every row; an
\* upsert of an existing username replaces only the other columns.
C5_IdAndCreatedAtKept ==
    [][\A r \in users : \E r2 \in users' :
           r2.username = r.username /\ r2.id = r.id /\ r2.created_at = r.created_at]_vars

\* C5's case: a row was upserted again in a later second than it was created.
C5_Witness == \E r \in users : r.updated_at > r.created_at

\* C6 as claimed: every commit of a create_user for an existing username
\* leaves the row's updated_at later than it was, and not earlier than its
\* created_at.
C6_UpdatedAtAdvances ==
    [][\A p \in Procs : Commits(p) =>
           \A r \in RowsOf(users, username[p]) :
           \A r2 \in RowsOf(users', username[p]) :
               r2.updated_at > r.updated_at /\ r2.updated_at >= r2.created_at]_vars

\* C6 as amended: every commit of a create_user for an existing username sets
\* the row's updated_at to the timestamp that call took, in whole seconds;
\* when no other create_user for the username has committed since the call
\* read the clock, that is not earlier than the value before (it is equal
\* when both calls read the clock in the same second) and not earlier than
\* created_at.
C6_UpdatedAtRefreshed ==
    [][\A p \in Procs : Commits(p) =>
           \A r \in RowsOf(users, username[p]) :
           \A r2 \in RowsOf(users', username[p]) :
               /\ r2.updated_at = timestamp[p]
               /\ seen[p] = lastCommit[username[p]]
                     => (r2.updated_at >= r.updated_at /\ r2.updated_at >= r2.created_at)]_vars

\* C6's case: a call has upserted a username again in the second of the
\* upsert before it, which had committed when the call read the clock, and
\* updated_at is what it was.
C6_Witness ==
    \E p \in Procs : \E r \in RowsOf(users, username[p]) :
        /\ Created(p) /\ seen[p] # NoCommit
        /\ r.salt = _encode_salt(salt[p])
        /\ r.updated_at = seen[p][1].timestamp

\* C7: every row of the table, and every row a verify_user has fetched, has
\* its password_hash, salt and iterations all set, and all three are those
\* of one create_user call, the last that committed for the username.
C7_RecordsWrittenWhole ==
    /\ \A r \in users :
          /\ r.password_hash # NoHash /\ r.salt # <<>> /\ r.iterations > 0
          /\ lastCommit[r.username] # NoCommit
          /\ Credentials(r) = Written(lastCommit[r.username][1])
    /\ \A p \in Procs : Verified(p) =>
          IF seen[p] = NoCommit THEN row[p] = NoRow
          ELSE row[p] = Written(seen[p][1])

\* C7's case: verify_user has fetched a user's row while a create_user for
\* the same user holds its transaction open, with another password.
C7_Witness ==
    \E p, q \in Procs :
        /\ Verified(p) /\ row[p] # NoRow
        /\ op[q] = "create" /\ pc[q] = "commit" /\ lock = q
        /\ username[q] = username[p]
        /\ password_hash[q] # row[p][1]

\* The columns of a create_user call in progress.
Call(p) == <<password_hash[p], _encode_salt(salt[p]), iterations[p], timestamp[p]>>

\* C8: when two create_user calls for one username have both committed, the
\* row is the whole of one of the two calls, the one that committed last,
\* and that call's password verifies.
C8_LastCommitWins ==
    \A p, q \in Procs :
        (p # q /\ Created(p) /\ Created(q) /\ username[p] = username[q]) =>
            LET u == username[p]
                c == lastCommit[u][1]
            IN  \A r \in RowsOf(users, u) :
                    /\ <<r.password_hash, r.salt, r.iterations, r.updated_at>>
                           \in {Call(p), Call(q)}
                    /\ Credentials(r) = Written(c)
                    /\ r.updated_at = c.timestamp
                    /\ c.salt \in {salt[p], salt[q]}
                    /\ VerifyRow(SelectCredentials(users, u), c.password) = Returns(TRUE)

\* C9: list_users returns one <<id, username, created_at, updated_at>> for
\* every row of the table and nothing else, by username ascending; an entry
\* has those four columns only, so neither password_hash nor salt.
C9_ListIsOrderedProjection ==
    [][\A p \in Procs : (pc[p] = "select_all" /\ pc'[p] = "done") =>
           LET L == listing'[p]
           IN  /\ Len(L) = Cardinality(users)
               /\ \A i \in 1..Len(L) : Len(L[i]) = 4
               /\ \A r \in users : \E i \in 1..Len(L) :
                      L[i] = <<r.id, r.username, r.created_at, r.updated_at>>
               /\ \A i, j \in 1..Len(L) :
                      i < j => BytesLess(Utf8(L[i][2]), Utf8(L[j][2]))]_vars

\* C9's case: a listing of two users in which the one with the larger id
\* comes first.
C9_Witness ==
    \E p \in Procs :
        /\ op[p] = "list" /\ pc[p] = "done"
        /\ Len(listing[p]) = 2
        /\ listing[p][1][1] > listing[p][2][1]

\* C10: the salt and the digest a commit writes were never written before,
\* for this username or another, and the rows of the table have different
\* salts.
C10_SaltNeverStoredTwice ==
    [][/\ \A p \in Procs : Commits(p) =>
              \A r2 \in RowsOf(users', username[p]) :
                  /\ r2.salt \notin {x[1] : x \in stored}
                  /\ r2.password_hash \notin {x[2] : x \in stored}
       /\ \A r1, r2 \in users' : r1.salt = r2.salt => r1 = r2]_vars

\* C10's case: a username was upserted twice with the same password.
C10_Witness ==
    \E p \in Procs :
        /\ Created(p) /\ seen[p] # NoCommit
        /\ seen[p][1].password = password[p]
        /\ lastCommit[username[p]][1].salt = salt[p]
        /\ Cardinality(stored) >= 2

\* C11: under FaultSpec, when PBKDF2_ITERATIONS no longer is what it was when
\* the record was written, verify_user with the record's password returns
\* True, from the row as it was written; and the iterations of every row are
\* those of the last create_user that committed for its username.
C11_StoredIterationsVerify ==
    /\ \A p \in Procs :
          (/\ Verified(p) /\ seen[p] # NoCommit
           /\ seen[p][1].password = password[p]
           /\ seen[p][1].iterations # pbkdf2_iterations
           /\ row[p] = Written(seen[p][1]))
              => (pc[p] = "done" /\ returned[p] = TRUE)
    /\ \A r \in users :
          lastCommit[r.username] # NoCommit
              /\ r.iterations = lastCommit[r.username][1].iterations

\* C12: under FaultSpec, no create_user with the empty username returns
\* without an exception, and no row of the table has the empty username.
C12_EmptyUsernameRejected ==
    /\ \A p \in Procs : (Created(p) /\ username[p] = <<>>) => error[p] # NoError
    /\ \A r \in users : r.username # <<>>

\* The exceptions by which _decode_salt refuses a text.
CorruptRecord == {"binascii.Error", "UnicodeEncodeError"}

\* C13: under FaultSpec, a verify_user that has fetched a row whose salt or
\* hash is no encoded data raises, and raises what the codec raises on such a
\* text, which is neither what an unknown username nor what a wrong password
\* gets.
C13_CorruptRecordRaises ==
    \A p \in Procs :
        (/\ Verified(p) /\ row[p] # NoRow
         /\ (row[p][2] \in CorruptSalts \/ row[p][1] = CorruptHash))
            => (pc[p] = "raised" /\ error[p] \in CorruptRecord)

\* p's step into an operation, which is its initialize_database.
Initializes(p) == pc[p] = "idle" /\ pc'[p] # "idle"

\* C14: every initialize_database leaves the table in being, raises nothing
\* and keeps every row and the rowid sequence as they were, whoever else is in
\* the middle of an operation; no operation ever fails for want of the table;
\* and the first operation on a database, whichever it is, does not raise.
C14_SchemaLazyAndIdempotent ==
    [][\A p \in Procs :
           /\ Initializes(p) =>
                 /\ tableExists'
                 /\ users' = users /\ sqlite_sequence' = sqlite_sequence
                 /\ error'[p] = NoError
           /\ error'[p] # "sqlite3.OperationalError"
           /\ nOps' = 1 => pc'[p] # "raised"]_vars

\* C14's case: a caller has gone through initialize_database and on to its
\* SELECT while the other holds a transaction open on a table that has rows.
C14_Witness ==
    \E p, q \in Procs :
        /\ pc[p] = "commit" /\ lock = p /\ users # {}
        /\ pc[q] \in {"select", "select_all"}

\* C15: in every step the rows keep their ids, no two rows of the table have
\* one id, and the row a commit inserts for a username that had none gets an
\* id larger than that of every row there is, however many upserts of
\* existing usernames used up rowids before.
C15_IdsIncreaseWithInserts ==
    [][/\ \A r \in users : \E r2 \in users' : r2.username = r.username /\ r2.id = r.id
       /\ \A r1, r2 \in users' : r1.id = r2.id => r1 = r2
       /\ \A p \in Procs :
              (Commits(p) /\ RowsOf(users, username[p]) = {}) =>
                  \A r2 \in RowsOf(users', username[p]) :
                  \A r \in users : r2.id > r.id]_vars

\* C15's case: a username was inserted after another had been upserted
\* twice.
C15_Witness ==
    \E r1, r2 \in users : r1.id = 1 /\ r2.id = 3 /\ Cardinality(users) = 2

\* C16: under FaultSpec, every row has iterations above 0 after every step;
\* a create_user that comes to derive its digest while PBKDF2_ITERATIONS is
\* zero or negative raises there, and neither the table nor a transaction
\* has anything of it; and no create_user runs its upsert with a count that is
\* not positive.
C16_IterationsPositive ==
    [][/\ \A r \in users' : r.iterations > 0
       /\ \A p \in Procs :
              /\ (pc[p] = "prepare" /\ pc'[p] # "prepare" /\ pbkdf2_iterations < 1) =>
                     /\ pc'[p] = "raised" /\ error'[p] # NoError
                     /\ UNCHANGED <<users, sqlite_sequence, journal, lock>>
              /\ pc'[p] \in {"execute", "commit"} => iterations'[p] > 0]_vars

\* C16's case: an upsert of a username that has a row was refused for the
\* iteration count.
C16_Witness ==
    \E p \in Procs :
        /\ op[p] = "create" /\ pc[p] = "raised" /\ error[p] = "ValueError"
        /\ pbkdf2_iterations < 1
        /\ RowsOf(users, username[p]) # {}

\* C17: under CodecSpec, the text _encode_salt makes of a byte string decodes
\* by _decode_salt to that byte string, for every short byte string and for
\* the salts create_user draws.
C17_CodecRoundTrip ==
    codec_pc = "decoded" => (encoded = _encode_salt(raw) /\ decoded = raw)

\* C17's case: a salt of SALT_BYTES bytes, as create_user draws it, has gone
\* through the codec and back; its text ends in padding.
C17_Witness ==
    /\ codec_pc = "decoded"
    /\ raw = _generate_salt(1) /\ Len(raw) = SALT_BYTES
    /\ encoded[Len(encoded)] = B64Pad
    /\ decoded = raw

\* C18: under FaultSpec, a caller that is in no operation, or whose operation
\* has returned or raised, has no connection open; the one connection a
\* caller ever has open is that of create_user between its upsert and its
\* commit.
C18_ConnectionsClosed ==
    \A p \in Procs :
        /\ pc[p] \in {"idle", "done", "raised"} => connections[p] = 0
        /\ connections[p] = (IF pc[p] = "commit" THEN 1 ELSE 0)

\* C18's case: a statement of create_user raised inside the with block.
C18_Witness ==
    \E p \in Procs :
        /\ op[p] = "create" /\ pc[p] = "raised" /\ error[p] = "sqlite3.Error"
        /\ connections[p] = 0

\* C19: the commit of create_user(u, ...) leaves every row of another
\* username as it was, field for field; a step that is no commit of a
\* create_user (all of verify_user and list_users, and the rest of
\* create_user) leaves the whole table as it was; and every username that has
\* a row has one after the step.
C19_OnlyTheNamedRecord ==
    [][/\ \A p \in Procs : Commits(p) =>
              \A r \in users : r.username # username[p] => r \in users'
       /\ (\A p \in Procs : ~Commits(p)) => users' = users
       /\ \A r \in users : \E r2 \in users' : r2.username = r.username]_vars

\* C19's case: a username was upserted again while another username had its
\* row.
C19_Witness ==
    \E p \in Procs :
        /\ Created(p) /\ seen[p] # NoCommit
        /\ \E r \in users : r.username # username[p]

====
